---- MODULE Spec2Model ----
(***************************************************************************)
(* CowType<T>: the alignment-aware byte codec of heed-types                *)
(* (src/heed-types/src/cow_type.rs).                                       *)
(*                                                                         *)
(* The caller owns a backing memory `mem`.  A byte view is an address and  *)
(* a length into it.  Any number of threads call bytes_encode and          *)
(* bytes_decode on it; bytes_decode is modelled step by step (cast, match, *)
(* zeroed, copy_from_slice byte by byte, return) so that calls interleave. *)
(***************************************************************************)
EXTENDS Integers, Sequences, FiniteSets

\* ---------------------------------------------------------------- bounds
\* Size of the caller's backing memory, in bytes (addresses 0..MemSize-1).
MemSize == 6
\* Number of threads calling the codec concurrently.
NumThreads == 2

Addrs == 0 .. (MemSize - 1)
Threads == 1 .. NumThreads
\* The memory images the caller's backing memory is drawn from: all zero, and
\* the bytes 0x11, 0x22, ... repeating with period 2, 3 or MemSize.  With
\* period MemSize every byte differs from every other and from zero; with
\* periods 2 and 3 the same content lies at aligned and at misaligned addresses.
Periods == {2, 3, MemSize}

Images ==
  { [a \in Addrs |-> 0] } \cup
  { [a \in Addrs |-> 17 * ((a % p) + 1)] : p \in Periods }

\* The value types T the codec is instantiated at: size_of and align_of.
\* (), u8, u16, [u16; 2], u32, and the zero-sized [u16; 0].
Types ==
  { [size |-> 0, align |-> 1],
    [size |-> 1, align |-> 1],
    [size |-> 2, align |-> 2],
    [size |-> 4, align |-> 2],
    [size |-> 4, align |-> 4],
    [size |-> 0, align |-> 2] }

NoView == [addr |-> 0, len |-> 0]
NoResult == [kind |-> "none", addr |-> 0, len |-> 0, bytes |-> << >>, err |-> "none"]

VARIABLES
  T,        \* the value type CowType<T> is instantiated at
  mem,      \* the caller's backing memory: address -> byte
  pc,       \* per thread: "idle", "zeroed", "copy", "copying", "done", "panicked"
  op,       \* per thread: "none", "encode", "decode"
  bytes,    \* per thread: the byte view (or, for encode, the item's place) passed in
  item,     \* per thread: the local `item` of the fallback path, as its bytes
  idx,      \* per thread: bytes copied so far by copy_from_slice
  result,   \* per thread: what the call returned
  allocs,   \* per thread: T-sized values materialised by the call
  copies    \* per thread: copy_from_slice calls made by the call

vars == << T, mem, pc, op, bytes, item, idx, result, allocs, copies >>

\* ------------------------------------------------------- pure operators
\* The bytes of memory m under a view.
ViewBytes(m, v) == [i \in 1 .. v.len |-> m[v.addr + i - 1]]

IsAligned(addr, U) == addr % U.align = 0

\* A reference &T is a place in memory that holds a T: aligned and in bounds.
IsItemRef(U, a) == IsAligned(a, U) /\ a + U.size <= MemSize

\* A byte slice &[u8] is any place in memory.
IsByteView(a, n) == a + n <= MemSize

\* Faulty variant: the view is align_of::<T>() bytes long instead of size_of::<T>().
BytesOfAlign(U, a) == [addr |-> a, len |-> U.align]

\* bytemuck::bytes_of(item): the item's own memory as bytes.
BytesOf(U, a) == [addr |-> a, len |-> U.size]

\* Faulty variant: the cast checks the alignment before the size.
TryFromBytesAlignFirst(U, v) ==
  IF ~IsAligned(v.addr, U) THEN "TargetAlignmentGreaterAndInputNotAligned"
  ELSE IF v.len # U.size THEN "SizeMismatch"
  ELSE "Ok"

\* bytemuck::try_from_bytes::<T>(bytes): the size is checked first, then the
\* alignment of the starting address.
TryFromBytes(U, v) ==
  IF v.len # U.size THEN "SizeMismatch"
  ELSE IF ~IsAligned(v.addr, U) THEN "TargetAlignmentGreaterAndInputNotAligned"
  ELSE "Ok"

\* Faulty variant: every cast error takes the fallback (a catch-all Err(_) arm).
MatchCastCatchAll(c) == IF c = "Ok" THEN "borrowed" ELSE "fallback"

\* Faulty variant: no fallback arm, the alignment error is returned like any other.
MatchCastNoFallback(c) == IF c = "Ok" THEN "borrowed" ELSE "error"

\* Faulty variant: a successful cast is copied too (the result is always owned).
MatchCastAlwaysOwned(c) ==
  IF c \in {"Ok", "TargetAlignmentGreaterAndInputNotAligned"} THEN "fallback" ELSE "error"

\* The match of bytes_decode on the cast's outcome: which arm runs.
MatchCast(c) ==
  CASE c = "Ok" -> "borrowed"
    [] c = "TargetAlignmentGreaterAndInputNotAligned" -> "fallback"
    [] OTHER -> "error"

\* T::zeroed(), as its bytes.
ZeroedItem(U) == [i \in 1 .. U.size |-> 0]

\* ------------------------------------------------------------- results
OkBorrowed(v, m) ==
  [kind |-> "Borrowed", addr |-> v.addr, len |-> v.len, bytes |-> ViewBytes(m, v), err |-> "none"]

OkOwned(it) ==
  [kind |-> "Owned", addr |-> 0, len |-> Len(it), bytes |-> it, err |-> "none"]

ErrResult(e) ==
  [kind |-> "Err", addr |-> 0, len |-> 0, bytes |-> << >>, err |-> e]

\* ----------------------------------------------------------------- Init
Init ==
  /\ T \in Types
  /\ mem \in Images
  /\ pc = [t \in Threads |-> "idle"]
  /\ op = [t \in Threads |-> "none"]
  /\ bytes = [t \in Threads |-> NoView]
  /\ item = [t \in Threads |-> << >>]
  /\ idx = [t \in Threads |-> 0]
  /\ result = [t \in Threads |-> NoResult]
  /\ allocs = [t \in Threads |-> 0]
  /\ copies = [t \in Threads |-> 0]

\* -------------------------------------------------------------- actions
\* bytes_encode(item): Ok(Cow::Borrowed(bytes_of(item))).
BytesEncode(t, a) ==
  /\ pc[t] = "idle"
  /\ IsItemRef(T, a)
  /\ op' = [op EXCEPT ![t] = "encode"]
  /\ bytes' = [bytes EXCEPT ![t] = [addr |-> a, len |-> T.size]]
  /\ result' = [result EXCEPT ![t] = OkBorrowed(BytesOf(T, a), mem)]
  /\ pc' = [pc EXCEPT ![t] = "done"]
  /\ UNCHANGED << T, mem, item, idx, allocs, copies >>

\* bytes_decode(bytes): the cast and the match on its outcome.  The borrowed
\* arm and the error arm return at once; the fallback arm goes on.
BytesDecode(t, a, n) ==
  /\ pc[t] = "idle"
  /\ IsByteView(a, n)
  /\ LET v == [addr |-> a, len |-> n]
         c == TryFromBytes(T, v)
         arm == MatchCast(c)
     IN /\ op' = [op EXCEPT ![t] = "decode"]
        /\ bytes' = [bytes EXCEPT ![t] = v]
        /\ pc' = [pc EXCEPT ![t] = IF arm = "fallback" THEN "zeroed" ELSE "done"]
        /\ result' = [result EXCEPT ![t] =
                        IF arm = "borrowed" THEN OkBorrowed([addr |-> a, len |-> T.size], mem)
                        ELSE IF arm = "error" THEN ErrResult(c)
                        ELSE NoResult]
  /\ UNCHANGED << T, mem, item, idx, allocs, copies >>

\* Faulty variant: `item` is one shared (static) slot, not a local of the call.
ZeroedShared(t) ==
  /\ pc[t] = "zeroed"
  /\ item' = [s \in Threads |-> ZeroedItem(T)]
  /\ allocs' = [allocs EXCEPT ![t] = @ + 1]
  /\ pc' = [pc EXCEPT ![t] = "copy"]
  /\ UNCHANGED << T, mem, op, bytes, idx, result, copies >>

\* Faulty variant: the zeroes are also written over the caller's byte view.
ZeroedInPlace(t) ==
  /\ pc[t] = "zeroed"
  /\ item' = [item EXCEPT ![t] = ZeroedItem(T)]
  /\ mem' = [a \in Addrs |->
               IF a >= bytes[t].addr /\ a < bytes[t].addr + bytes[t].len THEN 0 ELSE mem[a]]
  /\ allocs' = [allocs EXCEPT ![t] = @ + 1]
  /\ pc' = [pc EXCEPT ![t] = "copy"]
  /\ UNCHANGED << T, op, bytes, idx, result, copies >>

\* let mut item = T::zeroed();
Zeroed(t) ==
  /\ pc[t] = "zeroed"
  /\ item' = [item EXCEPT ![t] = ZeroedItem(T)]
  /\ allocs' = [allocs EXCEPT ![t] = @ + 1]
  /\ pc' = [pc EXCEPT ![t] = "copy"]
  /\ UNCHANGED << T, mem, op, bytes, idx, result, copies >>

\* bytes_of_mut(&mut item).copy_from_slice(bytes): the length check, which
\* panics when source and destination lengths differ.
CopyFromSlice(t) ==
  /\ pc[t] = "copy"
  /\ IF Len(item[t]) # bytes[t].len
       THEN /\ pc' = [pc EXCEPT ![t] = "panicked"]
            /\ UNCHANGED copies
       ELSE /\ pc' = [pc EXCEPT ![t] = "copying"]
            /\ copies' = [copies EXCEPT ![t] = @ + 1]
  /\ idx' = [idx EXCEPT ![t] = 0]
  /\ UNCHANGED << T, mem, op, bytes, item, result, allocs >>

\* Faulty variant: the bytes are stored in reverse order (a byte swap).
CopyByteReversed(t) ==
  /\ pc[t] = "copying"
  /\ idx[t] < bytes[t].len
  /\ item' = [item EXCEPT ![t][bytes[t].len - idx[t]] = mem[bytes[t].addr + idx[t]]]
  /\ idx' = [idx EXCEPT ![t] = @ + 1]
  /\ UNCHANGED << T, mem, pc, op, bytes, result, allocs, copies >>

\* Faulty variant: source and destination swapped, the item is copied over the view.
CopyByteIntoView(t) ==
  /\ pc[t] = "copying"
  /\ idx[t] < bytes[t].len
  /\ mem' = [mem EXCEPT ![bytes[t].addr + idx[t]] = item[t][idx[t] + 1]]
  /\ idx' = [idx EXCEPT ![t] = @ + 1]
  /\ UNCHANGED << T, item, pc, op, bytes, result, allocs, copies >>

\* copy_from_slice, one byte: item's byte idx is overwritten by the view's.
CopyByte(t) ==
  /\ pc[t] = "copying"
  /\ idx[t] < bytes[t].len
  /\ item' = [item EXCEPT ![t][idx[t] + 1] = mem[bytes[t].addr + idx[t]]]
  /\ idx' = [idx EXCEPT ![t] = @ + 1]
  /\ UNCHANGED << T, mem, pc, op, bytes, result, allocs, copies >>

\* Faulty variant: the copy stops one byte short (the last byte stays zero).
ReturnOwnedEarly(t) ==
  /\ pc[t] = "copying"
  /\ idx[t] >= bytes[t].len - 1
  /\ result' = [result EXCEPT ![t] = OkOwned(item[t])]
  /\ pc' = [pc EXCEPT ![t] = "done"]
  /\ UNCHANGED << T, mem, op, bytes, item, idx, allocs, copies >>

\* Ok(Cow::Owned(item))
ReturnOwned(t) ==
  /\ pc[t] = "copying"
  /\ idx[t] = bytes[t].len
  /\ result' = [result EXCEPT ![t] = OkOwned(item[t])]
  /\ pc' = [pc EXCEPT ![t] = "done"]
  /\ UNCHANGED << T, mem, op, bytes, item, idx, allocs, copies >>

\* The caller lets go of the returned Cow: the borrow 'a ends, an owned item
\* is dropped, and the thread may call again.
Drop(t) ==
  /\ pc[t] = "done"
  /\ pc' = [pc EXCEPT ![t] = "idle"]
  /\ op' = [op EXCEPT ![t] = "none"]
  /\ bytes' = [bytes EXCEPT ![t] = NoView]
  /\ item' = [item EXCEPT ![t] = << >>]
  /\ idx' = [idx EXCEPT ![t] = 0]
  /\ result' = [result EXCEPT ![t] = NoResult]
  /\ allocs' = [allocs EXCEPT ![t] = 0]
  /\ copies' = [copies EXCEPT ![t] = 0]
  /\ UNCHANGED << T, mem >>

Next ==
  \/ \E t \in Threads, a \in Addrs : BytesEncode(t, a)
  \/ \E t \in Threads, a \in Addrs, n \in 0 .. MemSize : BytesDecode(t, a, n)
  \/ \E t \in Threads : Zeroed(t)
  \/ \E t \in Threads : CopyFromSlice(t)
  \/ \E t \in Threads : CopyByte(t)
  \/ \E t \in Threads : ReturnOwned(t)
  \/ \E t \in Threads : Drop(t)

Spec == Init /\ [][Next]_vars

\* ------------------------------------------------ the calls, run alone
\* bytes_encode run alone on the item at address a of memory m.
EncodeAlone(U, a, m) == OkBorrowed(BytesOf(U, a), m)

\* bytes_decode run alone on view v of memory m: cast, match, and in the
\* fallback arm a zeroed item overwritten by the view's bytes.
DecodeAlone(U, v, m) ==
  LET c == TryFromBytes(U, v)
      arm == MatchCast(c)
      src == ViewBytes(m, v)
      zero == ZeroedItem(U)
  IN IF arm = "borrowed" THEN OkBorrowed([addr |-> v.addr, len |-> U.size], m)
     ELSE IF arm = "error" THEN ErrResult(c)
     ELSE IF Len(zero) # Len(src) THEN [NoResult EXCEPT !.kind = "panic"]
     ELSE OkOwned([i \in 1 .. Len(zero) |-> src[i]])

\* ------------------------------------------------- vocabulary of claims
Decoding(t) == op[t] = "decode"
Encoding(t) == op[t] = "encode"
Returned(t) == pc[t] = "done"
InFallback(t) == pc[t] \in {"zeroed", "copy", "copying"}
RightSize(t) == bytes[t].len = T.size
Aligned(t) == IsAligned(bytes[t].addr, T)
\* The bytes now under the view a call was given.
Input(t) == ViewBytes(mem, bytes[t])

\* The two byte orders a build can have, and the value a T-sized byte string
\* stands for under each (T read as an unsigned integer).
Endians == {"little", "big"}

RECURSIVE LittleValue(_)
LittleValue(b) == IF b = << >> THEN 0 ELSE Head(b) + 256 * LittleValue(Tail(b))

Reverse(b) == [i \in 1 .. Len(b) |-> b[Len(b) + 1 - i]]

NativeValue(b, e) == IF e = "little" THEN LittleValue(b) ELSE LittleValue(Reverse(b))

\* C1: a byte view whose length differs from size_of(T), at any address,
\* aligned or not, is answered with the size-mismatch error: the call has
\* returned Err(SizeMismatch), never entered the fallback, and made no item.
C1_LengthMismatchIsError ==
  \A t \in Threads :
    (Decoding(t) /\ ~RightSize(t)) =>
      /\ Returned(t)
      /\ result[t] = ErrResult("SizeMismatch")
      /\ item[t] = << >>
      /\ allocs[t] = 0
      /\ copies[t] = 0

\* One call returned the error for a misaligned view one byte too long while
\* another returned it for an aligned view one byte too short.
C1_Witness ==
  \E t, u \in Threads :
    /\ Decoding(t) /\ Returned(t) /\ bytes[t].len = T.size + 1 /\ ~Aligned(t)
    /\ result[t].err = "SizeMismatch"
    /\ Decoding(u) /\ Returned(u) /\ bytes[u].len = T.size - 1 /\ Aligned(u)
    /\ result[u].err = "SizeMismatch"

\* C2: a byte view of length size_of(T) is decoded successfully at every
\* address: the call never returns an error (and never panics) for it.
C2_AlignmentNeverAnError ==
  \A t \in Threads :
    (Decoding(t) /\ RightSize(t)) =>
      /\ pc[t] # "panicked"
      /\ Returned(t) => result[t].kind \in {"Borrowed", "Owned"}

\* A misaligned and an aligned view of the right size have both been decoded.
C2_Witness ==
  \E t, u \in Threads :
    /\ Decoding(t) /\ Returned(t) /\ RightSize(t) /\ ~Aligned(t) /\ result[t].kind = "Owned"
    /\ Decoding(u) /\ Returned(u) /\ RightSize(u) /\ Aligned(u) /\ result[u].kind = "Borrowed"

\* C3: a misaligned view of length size_of(T) is returned as the owned
\* variant whose bytes are exactly the view's bytes, after one T was made and
\* one copy_from_slice ran.
C3_OwnedFallbackIsExactCopy ==
  \A t \in Threads :
    (Decoding(t) /\ Returned(t) /\ RightSize(t) /\ ~Aligned(t)) =>
      /\ result[t].kind = "Owned"
      /\ result[t].len = T.size
      /\ result[t].bytes = Input(t)
      /\ allocs[t] = 1
      /\ copies[t] = 1

\* An owned result of four bytes, each one non-zero and unlike the others.
C3_Witness ==
  \E t \in Threads :
    /\ Decoding(t) /\ Returned(t) /\ RightSize(t) /\ ~Aligned(t)
    /\ result[t].kind = "Owned" /\ T.size = 4
    /\ \A i \in 1 .. 4 : result[t].bytes[i] # 0
    /\ \A i, j \in 1 .. 4 : i # j => result[t].bytes[i] # result[t].bytes[j]

\* C4: an aligned view of length size_of(T) is returned as the borrowed
\* variant at the view's own address, with the view's bytes, and the call
\* never enters the fallback: no item is made and nothing is copied.
C4_AlignedIsBorrowedZeroCopy ==
  \A t \in Threads :
    (Decoding(t) /\ RightSize(t) /\ Aligned(t)) =>
      /\ Returned(t)
      /\ result[t].kind = "Borrowed"
      /\ result[t].addr = bytes[t].addr
      /\ result[t].len = T.size
      /\ result[t].bytes = Input(t)
      /\ item[t] = << >>
      /\ allocs[t] = 0
      /\ copies[t] = 0

\* A borrowed result over four non-zero bytes at a non-zero address.
C4_Witness ==
  \E t \in Threads :
    /\ Decoding(t) /\ Returned(t) /\ RightSize(t) /\ Aligned(t)
    /\ result[t].kind = "Borrowed" /\ T.size = 4 /\ bytes[t].addr > 0
    /\ \A i \in 1 .. 4 : result[t].bytes[i] # 0

\* C5: round trip.  Whenever a decode was given exactly the bytes that an
\* encode of item x returned, at whatever address, the decoded value has x's
\* size and x's value under either byte order, borrowed when the address is
\* aligned for T and owned when it is not.
C5_RoundTrip ==
  \A t, u \in Threads :
    (/\ Encoding(t) /\ Returned(t)
     /\ Decoding(u) /\ Returned(u)
     /\ Input(u) = result[t].bytes) =>
      LET x == ViewBytes(mem, [addr |-> bytes[t].addr, len |-> T.size])
      IN /\ result[u].kind = (IF Aligned(u) THEN "Borrowed" ELSE "Owned")
         /\ Len(result[u].bytes) = Len(x)
         /\ \A e \in Endians : NativeValue(result[u].bytes, e) = NativeValue(x, e)

\* The encoding of a value with distinct non-zero bytes was decoded at a
\* misaligned address, and the result is owned.
C5_Witness ==
  \E t, u \in Threads :
    /\ Encoding(t) /\ Returned(t) /\ Decoding(u) /\ Returned(u)
    /\ Input(u) = result[t].bytes
    /\ ~Aligned(u) /\ result[u].kind = "Owned"
    /\ T.size >= 2 /\ result[u].bytes[1] # result[u].bytes[2]
    /\ NativeValue(result[u].bytes, "little") # NativeValue(result[u].bytes, "big")

\* C6: bytes_encode always returns Ok with the borrowed variant: a view of
\* exactly size_of(T) bytes at the item's own address holding the item's
\* bytes; it makes no item and copies nothing.
C6_EncodeBorrowsItemBytes ==
  \A t \in Threads :
    Encoding(t) =>
      /\ Returned(t)
      /\ result[t].kind = "Borrowed"
      /\ result[t].addr = bytes[t].addr
      /\ result[t].len = T.size
      /\ Len(result[t].bytes) = T.size
      /\ \A i \in 1 .. T.size : result[t].bytes[i] = mem[bytes[t].addr + i - 1]
      /\ item[t] = << >>
      /\ allocs[t] = 0
      /\ copies[t] = 0

\* An encode of a four-byte item with alignment two, at a non-zero address.
C6_Witness ==
  \E t \in Threads :
    /\ Encoding(t) /\ Returned(t) /\ T.size = 4 /\ T.align = 2 /\ bytes[t].addr > 0
    /\ result[t].bytes[1] # 0

\* C7: under every interleaving each call is, at every step, where it would
\* be had it run alone: a returned call holds the result of the call run
\* alone, and a call in the fallback holds an item that is the view's first
\* idx bytes followed by zeroes, whatever the other calls did meanwhile.
C7_ConcurrentCallsAsAlone ==
  \A t \in Threads :
    /\ (Returned(t) /\ Encoding(t)) => result[t] = EncodeAlone(T, bytes[t].addr, mem)
    /\ (Returned(t) /\ Decoding(t)) => result[t] = DecodeAlone(T, bytes[t], mem)
    /\ pc[t] \in {"copy", "copying"} =>
         item[t] = [i \in 1 .. T.size |-> IF i <= idx[t] THEN Input(t)[i] ELSE 0]

\* Two decodes of the same misaligned view are in the copy at the same time,
\* at different positions, over non-zero bytes.
C7_Witness ==
  \E t, u \in Threads :
    /\ t # u /\ bytes[t] = bytes[u]
    /\ pc[t] = "copying" /\ pc[u] = "copying"
    /\ idx[t] > idx[u] /\ idx[u] > 0
    /\ item[t][1] # 0

\* C8: two encodes of the same unchanged item, whatever ran in between,
\* return views of the same length and content.
C8_EncodeIdempotent ==
  \A t, u \in Threads :
    (/\ Encoding(t) /\ Returned(t)
     /\ Encoding(u) /\ Returned(u)
     /\ bytes[t].addr = bytes[u].addr) =>
      /\ result[t].len = result[u].len
      /\ result[t].bytes = result[u].bytes

\* Two threads hold an encoding of the same non-zero two-byte item.
C8_Witness ==
  \E t, u \in Threads :
    /\ t # u /\ Encoding(t) /\ Returned(t) /\ Encoding(u) /\ Returned(u)
    /\ bytes[t].addr = bytes[u].addr
    /\ T.size = 2 /\ result[t].bytes[2] # 0

\* C9: bytes_decode never panics: copy_from_slice is reached only with a view
\* of length size_of(T), which is the length of the zeroed item.
C9_DecodeNeverPanics ==
  \A t \in Threads :
    /\ pc[t] # "panicked"
    /\ InFallback(t) => RightSize(t)
    /\ pc[t] \in {"copy", "copying"} => Len(item[t]) = bytes[t].len

\* While one call copies, another has been refused a misaligned view of the
\* wrong length.
C9_Witness ==
  \E t, u \in Threads :
    /\ pc[t] = "copying" /\ idx[t] > 0
    /\ Decoding(u) /\ Returned(u) /\ ~Aligned(u) /\ ~RightSize(u)
    /\ result[u].kind = "Err"

\* C10: frame.  No step of any call changes the caller's memory or the view
\* a call was given; the only memory written is the item of a call that is in
\* the fallback (or of a result being dropped).
C10_Frame ==
  [][/\ mem' = mem
     /\ \A t \in Threads :
          /\ (pc[t] # "idle" /\ pc'[t] # "idle") => bytes'[t] = bytes[t]
          /\ item'[t] # item[t] => (InFallback(t) \/ (Returned(t) /\ pc'[t] = "idle"))
    ]_vars

\* An owned result over non-zero bytes has been returned (the fallback wrote
\* its item) while another call holds a borrowed result.
C10_Witness ==
  \E t, u \in Threads :
    /\ Decoding(t) /\ Returned(t) /\ result[t].kind = "Owned"
    /\ T.size > 0 /\ \A i \in 1 .. T.size : result[t].bytes[i] # 0
    /\ Returned(u) /\ result[u].kind = "Borrowed"

====
